---- MODULE Spec2Model ----
(***************************************************************************)
(* Photobook: the App component (photo registry, progress counter, album   *)
(* projection, confirmation dialogs), the PhotoCard component (title,      *)
(* caption and tag editing) and the enrichment client generatePhotoDetails.*)
(*                                                                         *)
(* A JavaScript string is a sequence of one-character strings, so that     *)
(* trim(), truthiness and localeCompare are computed, not assumed.         *)
(* An optional value (error?: string, string | null) is <<>> when unset    *)
(* and <<v>> when set.                                                     *)
(***************************************************************************)
EXTENDS Integers, Sequences, FiniteSets, TLC

\* ------------------------------------------------------------------ bounds

\* Number of identifiers crypto.randomUUID / the import decoder hand out.
MaxIds == 3
\* Largest number of files in one upload.
MaxBatch == 2
\* Largest number of records one imported document decodes to.
MaxImport == 2
\* Number of identifiers handed out in the runs in which the user renames albums.
MaxAlbumIds == 3
\* Number of identifiers handed out in the runs in which the user edits cards.
MaxCardIds == 2
\* Number of onChange events (the user typing into a text input) in one run.
MaxTyped == 2
\* Number of identifiers handed out in the runs in which the user both renames
\* albums and edits cards.
MaxEditIds == 1

\* ----------------------------------------------------------------- strings

Uncategorized == <<"U", "n", "c", "a", "t", "e", "g", "o", "r", "i", "z", "e", "d">>

InProgress == <<".", ".", ".">>

\* String.prototype.trim, for the one whitespace character of the model.
RECURSIVE TrimStart(_)
TrimStart(s) ==
    IF Len(s) = 0 THEN s
    ELSE IF Head(s) = " " THEN TrimStart(Tail(s)) ELSE s

RECURSIVE TrimEnd(_)
TrimEnd(s) ==
    IF Len(s) = 0 THEN s
    ELSE IF s[Len(s)] = " " THEN TrimEnd(SubSeq(s, 1, Len(s) - 1)) ELSE s

Trim(s) == TrimEnd(TrimStart(s))

\* JavaScript truthiness of a string.
Truthy(s) == Len(s) > 0

None == <<>>

Some(v) == <<v>>

IsSome(o) == Len(o) = 1

\* Array.prototype.includes
Includes(seq, x) == \E i \in 1..Len(seq) : seq[i] = x

\* Array.prototype.filter(tag => tag !== x)
RECURSIVE FilterNot(_, _)
FilterNot(seq, x) ==
    IF Len(seq) = 0 THEN <<>>
    ELSE IF Head(seq) = x THEN FilterNot(Tail(seq), x)
         ELSE <<Head(seq)>> \o FilterNot(Tail(seq), x)

\* ------------------------------------------------------- enrichment client

MsgNoApiKey == "API_KEY environment variable is not set."

MsgInvalidFormat == "Invalid response format from AI."

MsgNotJson == "Failed to parse AI response. The format was not valid JSON."

MsgGenerate == "Failed to generate content from AI. Please try again."

JString(s) == [type |-> "string", val |-> s]

JArray(a) == [type |-> "array", val |-> a]

JNumber == [type |-> "number", val |-> <<>>]

\* The objects JSON.parse may return for the model's response texts: two of the
\* required shape and two that are not.
JsonObjects ==
    { [title |-> JString(<<"a">>), caption |-> JString(<<" ", "a">>),
       album |-> JString(<<"a">>), tags |-> JArray(<< <<"a">>, <<"b">> >>)],
      [title |-> JString(<<"b">>), caption |-> JString(<<>>),
       album |-> JString(<<>>), tags |-> JArray(<< <<"a">>, <<"a">> >>)],
      [title |-> JString(<<"a">>), caption |-> JString(<<"a">>),
       album |-> JString(<<"a">>), tags |-> JString(<<"a">>)],
      [title |-> JNumber, caption |-> JString(<<"a">>),
       album |-> JString(<<"b">>), tags |-> JArray(<<>>)] }

\* What the Gemini call can do: reject, answer text that is not JSON, or answer
\* the text of a JSON object.
Responses ==
    { [kind |-> "reject", json |-> <<>>], [kind |-> "notjson", json |-> <<>>] }
        \cup { [kind |-> "json", json |-> <<j>>] : j \in JsonObjects }

\* The shape test of generatePhotoDetails.
ValidShape(j) ==
    /\ j.title.type = "string"
    /\ j.caption.type = "string"
    /\ j.album.type = "string"
    /\ j.tags.type = "array"

\* What the try block of generatePhotoDetails throws: nothing, an Error of the
\* transport, the SyntaxError of JSON.parse, or its own Error for a wrong shape.
Thrown(resp) ==
    IF resp.kind = "reject" THEN [class |-> "Error", message |-> "transport"]
    ELSE IF resp.kind = "notjson" THEN [class |-> "SyntaxError", message |-> "json"]
    ELSE IF ValidShape(resp.json[1]) THEN [class |-> "none", message |-> ""]
    ELSE [class |-> "Error", message |-> MsgInvalidFormat]

\* generatePhotoDetails: [ok |-> TRUE, value |-> result] or
\* [ok |-> FALSE, message |-> the message of the Error it throws].  The catch
\* block rethrows every error of the try block under one of two messages.
generatePhotoDetails(hasKey, resp) ==
    IF ~hasKey THEN [ok |-> FALSE, message |-> MsgNoApiKey]
    ELSE IF Thrown(resp).class = "none"
         THEN [ok |-> TRUE,
               value |-> [title |-> resp.json[1].title.val,
                          caption |-> resp.json[1].caption.val,
                          album |-> resp.json[1].album.val,
                          tags |-> resp.json[1].tags.val]]
         ELSE IF Thrown(resp).class = "SyntaxError"
              THEN [ok |-> FALSE, message |-> MsgNotJson]
              ELSE [ok |-> FALSE, message |-> MsgGenerate]

\* Why a call of generatePhotoDetails fails, "none" when it does not.
Cause(hasKey, resp) ==
    IF ~hasKey THEN "nokey"
    ELSE IF resp.kind = "reject" THEN "reject"
    ELSE IF resp.kind = "notjson" THEN "notjson"
    ELSE IF ValidShape(resp.json[1]) THEN "none" ELSE "shape"

\* ------------------------------------------------------------------- state

VARIABLES
    photos,             \* App: useState<Photo[]>
    processingProgress, \* App: useState({completed, total})
    resetTimer,         \* App: the setTimeout of the progress effect is pending
    pending,            \* ids whose processPhotoContent awaits generatePhotoDetails
    hasApiKey,          \* process.env.API_KEY is set
    nextId,             \* next identifier to hand out
    isSaving,           \* App: useState(false)
    isImporting,        \* App: useState(false)
    photoToDelete,      \* App: useState<string | null>
    isNewPhotobookModalOpen, \* App: useState(false)
    editingAlbum,       \* App: useState<{oldName, newName} | null>
    cards,              \* PhotoCard local state, per mounted card (by photo id)
    focus,              \* the focused input among those with an onBlur handler
    typed,              \* history: the number of onChange events so far
    fate,               \* history: per pending id, what became of its record
    last                \* history: the operation of the last step

vars == <<photos, processingProgress, resetTimer, pending, hasApiKey, nextId,
          isSaving, isImporting, photoToDelete, isNewPhotobookModalOpen,
          editingAlbum, cards, focus, typed, fate, last>>

\* ----------------------------------------------------------------- helpers

Ids(ps) == { ps[i].id : i \in 1..Len(ps) }

PhotoById(ps, id) == ps[CHOOSE i \in 1..Len(ps) : ps[i].id = id]

RECURSIVE FilterOutIdReversed(_, _)
FilterOutIdReversed(ps, id) ==
    IF Len(ps) = 0 THEN <<>>
    ELSE IF Head(ps).id = id THEN FilterOutIdReversed(Tail(ps), id)
         ELSE FilterOutIdReversed(Tail(ps), id) \o <<Head(ps)>>

\* prevPhotos.filter(p => p.id !== id)
RECURSIVE FilterOutId(_, _)
FilterOutId(ps, id) ==
    IF Len(ps) = 0 THEN <<>>
    ELSE IF Head(ps).id = id THEN FilterOutId(Tail(ps), id)
         ELSE <<Head(ps)>> \o FilterOutId(Tail(ps), id)

\* photo.error ? ... : ...  (an unset error and an empty one are both falsy)
HasError(p) == IsSome(p.error) /\ p.error[1] # ""

\* ------------------------------------------------------- album projection

AlbumNameNoPlaceholder(p) ==
    IF Truthy(p.album) THEN p.album ELSE Uncategorized

\* photo.album || (photo.isLoading ? '...' : 'Uncategorized')
AlbumName(p) ==
    IF Truthy(p.album) THEN p.album
    ELSE IF p.isLoading THEN InProgress ELSE Uncategorized

\* Primary collation weight of the model's characters under localeCompare.
CollationOrder ==
    <<" ", ".", "a", "b", "c", "d", "e", "g", "i", "n", "o", "r", "t", "U", "z">>

Weight(c) == CHOOSE i \in 1..Len(CollationOrder) : CollationOrder[i] = c

\* a.localeCompare(b): negative, zero or positive.
RECURSIVE LocaleCompare(_, _)
LocaleCompare(a, b) ==
    IF Len(a) = 0 /\ Len(b) = 0 THEN 0
    ELSE IF Len(a) = 0 THEN -1
    ELSE IF Len(b) = 0 THEN 1
    ELSE IF Weight(Head(a)) < Weight(Head(b)) THEN -1
    ELSE IF Weight(Head(a)) > Weight(Head(b)) THEN 1
    ELSE LocaleCompare(Tail(a), Tail(b))

GroupNames(ps) == { AlbumName(ps[i]) : i \in 1..Len(ps) }

\* grouped[albumName]: the photos of one group, in registry order
RECURSIVE GroupOf(_, _)
GroupOf(ps, name) ==
    IF Len(ps) = 0 THEN <<>>
    ELSE IF AlbumName(Head(ps)) = name THEN <<Head(ps)>> \o GroupOf(Tail(ps), name)
         ELSE GroupOf(Tail(ps), name)

\* .sort(([a], [b]) => a.localeCompare(b)) over the distinct keys
RECURSIVE SortNames(_)
SortNames(S) ==
    IF S = {} THEN <<>>
    ELSE LET m == CHOOSE x \in S : \A y \in S : LocaleCompare(x, y) <= 0
         IN  <<m>> \o SortNames(S \ {m})

\* The useMemo albums: a sequence of <<albumName, albumPhotos>>.
albums(ps) ==
    LET names == SortNames(GroupNames(ps))
    IN  [i \in 1..Len(names) |-> <<names[i], GroupOf(ps, names[i])>>]

\* --------------------------------------------------- PhotoCard local state

\* The useState initial values of a PhotoCard mounted for photo p.
NewCard(p) ==
    [isEditingCaption |-> FALSE, editedCaption |-> p.caption,
     isEditingTitle |-> FALSE, editedTitle |-> p.title, tagInput |-> <<>>]

\* The two effects that copy photo.caption / photo.title into the scratch values
\* while the field is not being edited.
SyncCard(c, p) ==
    [c EXCEPT !.editedCaption = IF c.isEditingCaption THEN @ ELSE p.caption,
              !.editedTitle = IF c.isEditingTitle THEN @ ELSE p.title]

\* The cards after a render of registry ps: a card keeps its state while its
\* photo stays in the same <section key={albumName}>, and is mounted afresh
\* when the photo is new or moves to another section.
Rendered(ps, cs) ==
    [id \in Ids(ps) |->
        LET p == PhotoById(ps, id)
        IN  IF id \in Ids(photos) /\ id \in DOMAIN cs
               /\ AlbumName(PhotoById(photos, id)) = AlbumName(p)
            THEN SyncCard(cs[id], p)
            ELSE NewCard(p)]

EditableWhileLoading(p) == ~HasError(p)

\* The card shows title, caption and tags: photo.isLoading ? loader : photo.error ? ... : render
Editable(p) == ~p.isLoading /\ ~HasError(p)

\* ------------------------------------------------------------------ focus

\* The album header input (onBlur = handleSaveAlbumName) and the tag input of a
\* card (onBlur = handleAddTag) run their handler when they lose the focus; the
\* title and caption inputs have no onBlur.  focus names the focused one of the
\* former, so that a user action elsewhere comes after its blur.
AlbumFocus == Some([kind |-> "album", id |-> 0])

TagFocus(id) == Some([kind |-> "tag", id |-> id])

\* The focus after a render of registry ps with album edit ea: an input that is
\* no longer rendered has lost it, without a blur event.
FocusAfter(ps, ea) ==
    IF focus = AlbumFocus
    THEN IF IsSome(ea) /\ ea[1].oldName \in { AlbumName(ps[i]) : i \in 1..Len(ps) }
         THEN focus ELSE None
    ELSE IF IsSome(focus)
         THEN IF \E i \in 1..Len(ps) :
                    /\ ps[i].id = focus[1].id
                    /\ focus[1].id \in Ids(photos)
                    /\ AlbumName(PhotoById(photos, focus[1].id)) = AlbumName(ps[i])
              THEN focus ELSE None
         ELSE None

\* ------------------------------------------------------------ progress

\* The effect on [processingProgress]: the cleanup clears the pending timer, and
\* a new timer is set when total > 0 and completed >= total.
TimerSetWhileBusy(pr) == pr.total > 0

TimerSetNever(pr) == FALSE

TimerSet(pr) == pr.total > 0 /\ pr.completed >= pr.total

SetProcessingProgressNoCleanup(pr) ==
    /\ processingProgress' = pr
    /\ resetTimer' = (resetTimer \/ TimerSet(pr))

SetProcessingProgress(pr) ==
    /\ processingProgress' = pr
    /\ resetTimer' = TimerSet(pr)

\* ---------------------------------------------------------------- Init

Init ==
    /\ photos = <<>>
    /\ processingProgress = [completed |-> 0, total |-> 0]
    /\ resetTimer = FALSE
    /\ pending = {}
    /\ hasApiKey \in BOOLEAN
    /\ nextId = 1
    /\ isSaving = FALSE
    /\ isImporting = FALSE
    /\ photoToDelete = None
    /\ isNewPhotobookModalOpen = FALSE
    /\ editingAlbum = None
    /\ cards = <<>>
    /\ focus = None
    /\ typed = 0
    /\ fate = <<>>
    /\ last = [op |-> "init"]

\* isLoading = isSaving || isImporting: the upload and import inputs and the
\* New and Save buttons are disabled while it holds.
isLoading == isSaving \/ isImporting

\* --------------------------------------------------- upload and enrichment

NewPhotoReusedId(id) ==
    [id |-> 1, src |-> <<"blob", id>>, file |-> <<"file", id>>,
     title |-> <<>>, caption |-> <<>>, album |-> <<>>, tags |-> <<>>,
     isLoading |-> TRUE, error |-> None]

NewPhotoNotLoading(id) ==
    [id |-> id, src |-> <<"blob", id>>, file |-> <<"file", id>>,
     title |-> <<>>, caption |-> <<>>, album |-> <<>>, tags |-> <<>>,
     isLoading |-> FALSE, error |-> None]

\* The record handleFilesSelected builds for one file.
NewPhoto(id) ==
    [id |-> id, src |-> <<"blob", id>>, file |-> <<"file", id>>,
     title |-> <<>>, caption |-> <<>>, album |-> <<>>, tags |-> <<>>,
     isLoading |-> TRUE, error |-> None]

\* handleFilesSelected for a FileList of n files (via UploadPrompt or the header
\* input), and the n calls of processPhotoContent up to their await.
HandleFilesSelected(n) ==
    /\ focus = None
    /\ ~isLoading
    /\ nextId + n - 1 <= MaxIds
    /\ LET newPhotos == [i \in 1..n |-> NewPhoto(nextId + i - 1)]
           newIds == nextId..(nextId + n - 1)
       IN  /\ SetProcessingProgress(
                  [completed |-> processingProgress.completed,
                   total |-> processingProgress.total + Len(newPhotos)])
           /\ photos' = photos \o newPhotos
           /\ pending' = pending \cup newIds
           /\ fate' = [id \in pending \cup newIds |->
                          IF id \in newIds THEN "present" ELSE fate[id]]
           /\ cards' = Rendered(photos \o newPhotos, cards)
    /\ nextId' = nextId + n
    /\ last' = [op |-> "upload", n |-> n]
    /\ UNCHANGED <<hasApiKey, isSaving, isImporting, photoToDelete,
                   isNewPhotobookModalOpen, editingAlbum, focus, typed>>

ApplySuccessUpsert(ps, id, v) ==
    IF \E i \in 1..Len(ps) : ps[i].id = id
    THEN [i \in 1..Len(ps) |->
            IF ps[i].id = id
            THEN [ps[i] EXCEPT !.title = v.title, !.caption = v.caption,
                               !.album = v.album, !.tags = v.tags, !.isLoading = FALSE]
            ELSE ps[i]]
    ELSE Append(ps, [id |-> id, src |-> <<"blob", id>>, file |-> <<"file", id>>,
                     title |-> v.title, caption |-> v.caption, album |-> v.album,
                     tags |-> v.tags, isLoading |-> FALSE, error |-> None])

ApplySuccessDropsTags(ps, id, v) ==
    [i \in 1..Len(ps) |->
        IF ps[i].id = id
        THEN [ps[i] EXCEPT !.title = v.title, !.caption = v.caption,
                           !.album = v.album, !.isLoading = FALSE]
        ELSE ps[i]]

\* The setPhotos of the try block of processPhotoContent.
ApplySuccess(ps, id, v) ==
    [i \in 1..Len(ps) |->
        IF ps[i].id = id
        THEN [ps[i] EXCEPT !.title = v.title, !.caption = v.caption,
                           !.album = v.album, !.tags = v.tags, !.isLoading = FALSE]
        ELSE ps[i]]

ApplyFailureKeepsLoading(ps, id, errorMessage) ==
    [i \in 1..Len(ps) |->
        IF ps[i].id = id
        THEN [ps[i] EXCEPT !.album = Uncategorized, !.tags = <<>>,
                           !.error = Some(errorMessage)]
        ELSE ps[i]]

ApplyFailureUpsert(ps, id, errorMessage) ==
    IF \E i \in 1..Len(ps) : ps[i].id = id
    THEN [i \in 1..Len(ps) |->
            IF ps[i].id = id
            THEN [ps[i] EXCEPT !.album = Uncategorized, !.tags = <<>>,
                               !.error = Some(errorMessage), !.isLoading = FALSE]
            ELSE ps[i]]
    ELSE Append(ps, [id |-> id, src |-> <<"blob", id>>, file |-> <<"file", id>>,
                     title |-> <<>>, caption |-> <<>>, album |-> Uncategorized,
                     tags |-> <<>>, isLoading |-> FALSE, error |-> Some(errorMessage)])

ApplyFailureKeepsAlbum(ps, id, errorMessage) ==
    [i \in 1..Len(ps) |->
        IF ps[i].id = id
        THEN [ps[i] EXCEPT !.tags = <<>>, !.error = Some(errorMessage),
                           !.isLoading = FALSE]
        ELSE ps[i]]

\* The setPhotos of the catch block of processPhotoContent.
ApplyFailure(ps, id, errorMessage) ==
    [i \in 1..Len(ps) |->
        IF ps[i].id = id
        THEN [ps[i] EXCEPT !.album = Uncategorized, !.tags = <<>>,
                           !.error = Some(errorMessage), !.isLoading = FALSE]
        ELSE ps[i]]

CompletedTwice(pr) == [pr EXCEPT !.completed = pr.completed + 2]

CompletedNotCounted(pr) == pr

\* The finally block of processPhotoContent.
Completed(pr) == [pr EXCEPT !.completed = pr.completed + 1]

SettleAbortsSiblings(id, resp) ==
    /\ id \in pending
    /\ LET r == generatePhotoDetails(hasApiKey, resp)
           ps == IF r.ok THEN ApplySuccess(photos, id, r.value)
                 ELSE ApplyFailure(photos, id, r.message)
           left == IF r.ok THEN pending \ {id} ELSE {}
       IN  /\ photos' = ps
           /\ cards' = Rendered(ps, cards)
           /\ focus' = FocusAfter(ps, editingAlbum)
           /\ last' = [op |-> "settle", id |-> id, ok |-> r.ok, fate |-> fate[id],
                       cause |-> Cause(hasApiKey, resp)]
           /\ pending' = left
           /\ fate' = [i \in left |-> fate[i]]
    /\ SetProcessingProgress(Completed(processingProgress))
    /\ UNCHANGED <<hasApiKey, nextId, isSaving, isImporting, photoToDelete,
                   isNewPhotobookModalOpen, editingAlbum, typed>>

\* processPhotoContent from the point where generatePhotoDetails settles: the
\* request of record id gets response resp.
Settle(id, resp) ==
    /\ id \in pending
    /\ LET r == generatePhotoDetails(hasApiKey, resp)
           ps == IF r.ok THEN ApplySuccess(photos, id, r.value)
                 ELSE ApplyFailure(photos, id, r.message)
       IN  /\ photos' = ps
           /\ cards' = Rendered(ps, cards)
           /\ focus' = FocusAfter(ps, editingAlbum)
           /\ last' = [op |-> "settle", id |-> id, ok |-> r.ok, fate |-> fate[id],
                       cause |-> Cause(hasApiKey, resp)]
    /\ SetProcessingProgress(Completed(processingProgress))
    /\ pending' = pending \ {id}
    /\ fate' = [i \in pending \ {id} |-> fate[i]]
    /\ UNCHANGED <<hasApiKey, nextId, isSaving, isImporting, photoToDelete,
                   isNewPhotobookModalOpen, editingAlbum, typed>>

\* The timeout of the progress effect fires, 1500 ms after it was set.
ResetTimerFires ==
    /\ resetTimer
    /\ SetProcessingProgress([completed |-> 0, total |-> 0])
    /\ last' = [op |-> "reset"]
    /\ UNCHANGED <<photos, pending, hasApiKey, nextId, isSaving, isImporting,
                   photoToDelete, isNewPhotobookModalOpen, editingAlbum, cards, fate, focus, typed>>

\* ------------------------------------------------------- import and save

\* What a decoded record carries besides its identity.
ImportContents ==
    { [title |-> <<"a">>, caption |-> <<>>, album |-> <<"b">>, tags |-> << <<"a">> >>],
      [title |-> <<"b">>, caption |-> <<"b">>, album |-> <<>>, tags |-> <<>>] }

\* A record as importPhotobook reconstructs it: a fresh identifier, not loading,
\* no error.
ImportedPhoto(id, c) ==
    [id |-> id, src |-> <<"data", id>>, file |-> <<"file", id>>,
     title |-> c.title, caption |-> c.caption, album |-> c.album, tags |-> c.tags,
     isLoading |-> FALSE, error |-> None]

\* The documents importPhotobook decodes: every sequence of at most MaxImport records.
ImportedDocuments ==
    UNION { [1..k -> ImportContents] : k \in 0..MaxImport }

\* handleImportSelected up to its await.
HandleImportSelected ==
    /\ focus = None
    /\ ~isLoading
    /\ isImporting' = TRUE
    /\ last' = [op |-> "importStart"]
    /\ UNCHANGED <<photos, processingProgress, resetTimer, pending, hasApiKey, nextId,
                   isSaving, photoToDelete, isNewPhotobookModalOpen, editingAlbum,
                   cards, fate, focus, typed>>

ImportResolvesReplaces(doc) ==
    /\ isImporting
    /\ nextId + Len(doc) - 1 <= MaxIds
    /\ LET imported == [i \in 1..Len(doc) |-> ImportedPhoto(nextId + i - 1, doc[i])]
           ps == IF Len(imported) > 0 THEN imported ELSE photos
       IN  /\ photos' = ps
           /\ cards' = Rendered(ps, cards)
           /\ focus' = FocusAfter(ps, editingAlbum)
    /\ nextId' = nextId + Len(doc)
    /\ isImporting' = FALSE
    /\ last' = [op |-> "importOk", n |-> Len(doc)]
    /\ UNCHANGED <<processingProgress, resetTimer, pending, hasApiKey, isSaving,
                   photoToDelete, isNewPhotobookModalOpen, editingAlbum, fate, typed>>

\* handleImportSelected after importPhotobook resolved with the records of doc.
ImportResolves(doc) ==
    /\ isImporting
    /\ nextId + Len(doc) - 1 <= MaxIds
    /\ LET imported == [i \in 1..Len(doc) |-> ImportedPhoto(nextId + i - 1, doc[i])]
           ps == IF Len(imported) > 0 THEN photos \o imported ELSE photos
       IN  /\ photos' = ps
           /\ cards' = Rendered(ps, cards)
           /\ focus' = FocusAfter(ps, editingAlbum)
    /\ nextId' = nextId + Len(doc)
    /\ isImporting' = FALSE
    /\ last' = [op |-> "importOk", n |-> Len(doc)]
    /\ UNCHANGED <<processingProgress, resetTimer, pending, hasApiKey, isSaving,
                   photoToDelete, isNewPhotobookModalOpen, editingAlbum, fate, typed>>

\* handleImportSelected after importPhotobook rejected.
ImportRejects ==
    /\ isImporting
    /\ isImporting' = FALSE
    /\ last' = [op |-> "importFail"]
    /\ UNCHANGED <<photos, processingProgress, resetTimer, pending, hasApiKey, nextId,
                   isSaving, photoToDelete, isNewPhotobookModalOpen, editingAlbum,
                   cards, fate, focus, typed>>

\* handleSave up to its await (the button shows when photos.length > 0).
HandleSave ==
    /\ focus = None
    /\ Len(photos) > 0
    /\ ~isLoading
    /\ isSaving' = TRUE
    /\ last' = [op |-> "saveStart"]
    /\ UNCHANGED <<photos, processingProgress, resetTimer, pending, hasApiKey, nextId,
                   isImporting, photoToDelete, isNewPhotobookModalOpen, editingAlbum,
                   cards, fate, focus, typed>>

SaveSettlesDropsOnFailure(ok) ==
    /\ isSaving
    /\ isSaving' = FALSE
    /\ photos' = IF ok THEN photos ELSE <<>>
    /\ cards' = Rendered(IF ok THEN photos ELSE <<>>, cards)
    /\ last' = [op |-> "saveEnd", ok |-> ok]
    /\ UNCHANGED <<processingProgress, resetTimer, pending, hasApiKey, nextId,
                   isImporting, photoToDelete, isNewPhotobookModalOpen, editingAlbum,
                   fate, focus, typed>>

\* handleSave after savePhotobook settled (ok: resolved, ~ok: rejected).
SaveSettles(ok) ==
    /\ isSaving
    /\ isSaving' = FALSE
    /\ last' = [op |-> "saveEnd", ok |-> ok]
    /\ UNCHANGED <<photos, processingProgress, resetTimer, pending, hasApiKey, nextId,
                   isImporting, photoToDelete, isNewPhotobookModalOpen, editingAlbum,
                   cards, fate, focus, typed>>

\* ------------------------------------------------- delete and new photobook

\* handleDeletePhoto, from the delete button of the card of a record.
HandleDeletePhoto(id) ==
    /\ focus = None
    /\ id \in Ids(photos)
    /\ photoToDelete' = Some(id)
    /\ last' = [op |-> "deleteAsk", id |-> id]
    /\ UNCHANGED <<photos, processingProgress, resetTimer, pending, hasApiKey, nextId,
                   isSaving, isImporting, isNewPhotobookModalOpen, editingAlbum,
                   cards, fate, focus, typed>>

\* confirmDelete, from the delete dialog (open while photoToDelete is set).
ConfirmDelete ==
    /\ focus = None
    /\ IsSome(photoToDelete)
    /\ LET id == photoToDelete[1]
           ps == FilterOutId(photos, id)
       IN  /\ photos' = ps
           /\ cards' = Rendered(ps, cards)
           /\ fate' = [i \in pending |->
                          IF i = id /\ id \in Ids(photos) THEN "deleted" ELSE fate[i]]
           /\ last' = [op |-> "delete", id |-> id]
    /\ photoToDelete' = None
    /\ UNCHANGED <<processingProgress, resetTimer, pending, hasApiKey, nextId,
                   isSaving, isImporting, isNewPhotobookModalOpen, editingAlbum, focus, typed>>

\* cancelDelete
CancelDelete ==
    /\ focus = None
    /\ IsSome(photoToDelete)
    /\ photoToDelete' = None
    /\ last' = [op |-> "deleteCancel"]
    /\ UNCHANGED <<photos, processingProgress, resetTimer, pending, hasApiKey, nextId,
                   isSaving, isImporting, isNewPhotobookModalOpen, editingAlbum,
                   cards, fate, focus, typed>>

\* handleNewPhotobook (the button shows when photos.length > 0).
HandleNewPhotobook ==
    /\ focus = None
    /\ Len(photos) > 0
    /\ ~isLoading
    /\ isNewPhotobookModalOpen' = TRUE
    /\ last' = [op |-> "newAsk"]
    /\ UNCHANGED <<photos, processingProgress, resetTimer, pending, hasApiKey, nextId,
                   isSaving, isImporting, photoToDelete, editingAlbum, cards, fate, focus, typed>>

\* confirmNewPhotobook
ConfirmNewPhotobook ==
    /\ focus = None
    /\ isNewPhotobookModalOpen
    /\ photos' = <<>>
    /\ cards' = Rendered(<<>>, cards)
    /\ fate' = [i \in pending |->
                   IF i \in Ids(photos) THEN "cleared" ELSE fate[i]]
    /\ isNewPhotobookModalOpen' = FALSE
    /\ last' = [op |-> "new"]
    /\ UNCHANGED <<processingProgress, resetTimer, pending, hasApiKey, nextId,
                   isSaving, isImporting, photoToDelete, editingAlbum, focus, typed>>

\* cancelNewPhotobook
CancelNewPhotobook ==
    /\ focus = None
    /\ isNewPhotobookModalOpen
    /\ isNewPhotobookModalOpen' = FALSE
    /\ last' = [op |-> "newCancel"]
    /\ UNCHANGED <<photos, processingProgress, resetTimer, pending, hasApiKey, nextId,
                   isSaving, isImporting, photoToDelete, editingAlbum, cards, fate, focus, typed>>

\* ------------------------------------------------------------ album rename

\* What the user may type into a text input.
Typed == { <<" ">>, <<"a">>, <<"a", " ">> }

\* The album header input shows for the group whose name is editingAlbum.oldName.
AlbumInputShown ==
    /\ IsSome(editingAlbum)
    /\ editingAlbum[1].oldName \in GroupNames(photos)

\* The click on the header of group albumName.
StartEditAlbum(albumName) ==
    /\ focus = None
    /\ albumName \in GroupNames(photos)
    /\ ~(IsSome(editingAlbum) /\ editingAlbum[1].oldName = albumName)
    /\ editingAlbum' = Some([oldName |-> albumName, newName |-> albumName])
    /\ focus' = AlbumFocus
    /\ last' = [op |-> "albumEdit"]
    /\ UNCHANGED <<photos, processingProgress, resetTimer, pending, hasApiKey, nextId,
                   isSaving, isImporting, photoToDelete, isNewPhotobookModalOpen,
                   cards, fate, typed>>

\* The click into the album header input when it shows without the focus (the
\* focusing effect runs only when editingAlbum changes).
FocusAlbumInput ==
    /\ AlbumInputShown
    /\ focus = None
    /\ focus' = AlbumFocus
    /\ last' = [op |-> "albumFocus"]
    /\ UNCHANGED <<photos, processingProgress, resetTimer, pending, hasApiKey, nextId,
                   isSaving, isImporting, photoToDelete, isNewPhotobookModalOpen,
                   editingAlbum, cards, fate, typed>>

\* onChange of the album header input.
TypeAlbumName(s) ==
    /\ typed < MaxTyped
    /\ typed' = typed + 1
    /\ AlbumInputShown
    /\ focus = AlbumFocus
    /\ editingAlbum' = Some([editingAlbum[1] EXCEPT !.newName = s])
    /\ last' = [op |-> "albumType"]
    /\ UNCHANGED <<photos, processingProgress, resetTimer, pending, hasApiKey, nextId,
                   isSaving, isImporting, photoToDelete, isNewPhotobookModalOpen,
                   cards, fate, focus>>

\* The setPhotos of handleAlbumNameChange.
RenameAlbum(ps, oldName, trimmedNewName) ==
    [i \in 1..Len(ps) |->
        IF ps[i].album = oldName THEN [ps[i] EXCEPT !.album = trimmedNewName]
        ELSE ps[i]]

handleAlbumNameChangeNoTrim(ps, oldName, newName) ==
    IF ~Truthy(Trim(newName)) THEN ps
    ELSE RenameAlbum(ps, oldName, newName)

handleAlbumNameChangeNoGuard(ps, oldName, newName) ==
    RenameAlbum(ps, oldName, Trim(newName))

\* handleAlbumNameChange: the registry it leaves.
handleAlbumNameChange(ps, oldName, newName) ==
    IF ~Truthy(Trim(newName)) THEN ps
    ELSE RenameAlbum(ps, oldName, Trim(newName))

\* handleSaveAlbumName (Enter in, or blur of, the album header input).
HandleSaveAlbumName ==
    /\ AlbumInputShown
    /\ focus = AlbumFocus
    /\ LET ps == handleAlbumNameChange(photos, editingAlbum[1].oldName,
                                       editingAlbum[1].newName)
       IN  /\ photos' = ps
           /\ cards' = Rendered(ps, cards)
    /\ editingAlbum' = None
    /\ focus' = None
    /\ last' = [op |-> "albumSave", oldName |-> editingAlbum[1].oldName,
                newName |-> editingAlbum[1].newName]
    /\ UNCHANGED <<processingProgress, resetTimer, pending, hasApiKey, nextId,
                   isSaving, isImporting, photoToDelete, isNewPhotobookModalOpen, fate, typed>>

\* Escape in the album header input.
CancelEditAlbum ==
    /\ AlbumInputShown
    /\ focus = AlbumFocus
    /\ editingAlbum' = None
    /\ focus' = None
    /\ last' = [op |-> "albumCancel"]
    /\ UNCHANGED <<photos, processingProgress, resetTimer, pending, hasApiKey, nextId,
                   isSaving, isImporting, photoToDelete, isNewPhotobookModalOpen,
                   cards, fate, typed>>

\* ----------------------------------------------------- PhotoCard handlers

\* handleTitleChange / handleCaptionChange / handleTagsChange of App
handleTitleChange(ps, photoId, newTitle) ==
    [i \in 1..Len(ps) |->
        IF ps[i].id = photoId THEN [ps[i] EXCEPT !.title = newTitle] ELSE ps[i]]

handleCaptionChange(ps, photoId, newCaption) ==
    [i \in 1..Len(ps) |->
        IF ps[i].id = photoId THEN [ps[i] EXCEPT !.caption = newCaption] ELSE ps[i]]

handleTagsChangeAll(ps, photoId, newTags) ==
    [i \in 1..Len(ps) |-> [ps[i] EXCEPT !.tags = newTags]]

handleTagsChange(ps, photoId, newTags) ==
    [i \in 1..Len(ps) |->
        IF ps[i].id = photoId THEN [ps[i] EXCEPT !.tags = newTags] ELSE ps[i]]

\* A step of the card of record id that leaves everything but the registry and
\* the cards alone: the registry becomes ps, the card's own state c, and the
\* render that follows runs the effects.
CardStep(id, ps, c, op) ==
    /\ photos' = ps
    /\ cards' = Rendered(ps, [cards EXCEPT ![id] = c])
    /\ focus' = IF op = "tagBlur" THEN None
                ELSE IF op = "tagFocus" THEN TagFocus(id) ELSE focus
    /\ typed' = IF op \in {"titleType", "captionType", "tagType"} THEN typed + 1
                ELSE typed
    /\ last' = [op |-> op, id |-> id]
    /\ UNCHANGED <<processingProgress, resetTimer, pending, hasApiKey, nextId,
                   isSaving, isImporting, photoToDelete, isNewPhotobookModalOpen,
                   editingAlbum, fate>>

\* The click on the title in viewing mode: !isEditingCaption && setIsEditingTitle(true)
StartEditTitle(id) ==
    /\ focus = None
    /\ id \in Ids(photos)
    /\ Editable(PhotoById(photos, id))
    /\ ~cards[id].isEditingTitle
    /\ ~cards[id].isEditingCaption
    /\ CardStep(id, photos, [cards[id] EXCEPT !.isEditingTitle = TRUE], "titleEdit")

\* onChange of the title input
TypeTitle(id, s) ==
    /\ typed < MaxTyped
    /\ focus = None
    /\ id \in Ids(photos)
    /\ Editable(PhotoById(photos, id))
    /\ cards[id].isEditingTitle
    /\ CardStep(id, photos, [cards[id] EXCEPT !.editedTitle = s], "titleType")

SaveTitleAllowsEmpty(ps, photo, editedTitle) ==
    IF Trim(editedTitle) # photo.title
    THEN handleTitleChange(ps, photo.id, Trim(editedTitle))
    ELSE ps

\* handleSaveTitle: the registry it leaves.
SaveTitle(ps, photo, editedTitle) ==
    IF Truthy(Trim(editedTitle)) /\ Trim(editedTitle) # photo.title
    THEN handleTitleChange(ps, photo.id, Trim(editedTitle))
    ELSE ps

\* handleSaveTitle (the Save button, or Enter)
HandleSaveTitle(id) ==
    /\ focus = None
    /\ id \in Ids(photos)
    /\ Editable(PhotoById(photos, id))
    /\ cards[id].isEditingTitle
    /\ CardStep(id, SaveTitle(photos, PhotoById(photos, id), cards[id].editedTitle),
                [cards[id] EXCEPT !.isEditingTitle = FALSE], "titleSave")

\* handleCancelTitle (the Cancel button, or Escape)
HandleCancelTitle(id) ==
    /\ focus = None
    /\ id \in Ids(photos)
    /\ Editable(PhotoById(photos, id))
    /\ cards[id].isEditingTitle
    /\ CardStep(id, photos,
                [cards[id] EXCEPT !.editedTitle = PhotoById(photos, id).title,
                                  !.isEditingTitle = FALSE], "titleCancel")

\* The click on the caption in viewing mode: !isEditingTitle && setIsEditingCaption(true)
StartEditCaption(id) ==
    /\ focus = None
    /\ id \in Ids(photos)
    /\ Editable(PhotoById(photos, id))
    /\ ~cards[id].isEditingCaption
    /\ ~cards[id].isEditingTitle
    /\ CardStep(id, photos, [cards[id] EXCEPT !.isEditingCaption = TRUE], "captionEdit")

\* onChange of the caption textarea
TypeCaption(id, s) ==
    /\ typed < MaxTyped
    /\ focus = None
    /\ id \in Ids(photos)
    /\ Editable(PhotoById(photos, id))
    /\ cards[id].isEditingCaption
    /\ CardStep(id, photos, [cards[id] EXCEPT !.editedCaption = s], "captionType")

\* handleSaveCaption: the registry it leaves.
SaveCaption(ps, photo, editedCaption) ==
    IF Trim(editedCaption) # photo.caption
    THEN handleCaptionChange(ps, photo.id, Trim(editedCaption))
    ELSE ps

\* handleSaveCaption (the Save button, or Ctrl/Cmd+Enter)
HandleSaveCaption(id) ==
    /\ focus = None
    /\ id \in Ids(photos)
    /\ Editable(PhotoById(photos, id))
    /\ cards[id].isEditingCaption
    /\ CardStep(id, SaveCaption(photos, PhotoById(photos, id), cards[id].editedCaption),
                [cards[id] EXCEPT !.isEditingCaption = FALSE], "captionSave")

HandleCancelCaptionCommits(id) ==
    /\ focus = None
    /\ id \in Ids(photos)
    /\ Editable(PhotoById(photos, id))
    /\ cards[id].isEditingCaption
    /\ CardStep(id, SaveCaption(photos, PhotoById(photos, id), cards[id].editedCaption),
                [cards[id] EXCEPT !.isEditingCaption = FALSE], "captionCancel")

\* handleCancelCaption (the Cancel button, or Escape)
HandleCancelCaption(id) ==
    /\ focus = None
    /\ id \in Ids(photos)
    /\ Editable(PhotoById(photos, id))
    /\ cards[id].isEditingCaption
    /\ CardStep(id, photos,
                [cards[id] EXCEPT !.editedCaption = PhotoById(photos, id).caption,
                                  !.isEditingCaption = FALSE], "captionCancel")

\* The caption textarea loses the focus: it has onChange and onKeyDown, and no
\* onBlur, so no handler runs.
BlurCaption(id) ==
    /\ focus = None
    /\ id \in Ids(photos)
    /\ Editable(PhotoById(photos, id))
    /\ cards[id].isEditingCaption
    /\ CardStep(id, photos, cards[id], "captionBlur")

\* The tags and the tag input show: !isEditingCaption && !isEditingTitle
TagsShown(id) ==
    /\ id \in Ids(photos)
    /\ Editable(PhotoById(photos, id))
    /\ ~cards[id].isEditingCaption
    /\ ~cards[id].isEditingTitle

\* The click into the tag input
FocusTagInput(id) ==
    /\ TagsShown(id)
    /\ focus = None
    /\ CardStep(id, photos, cards[id], "tagFocus")

\* onChange of the tag input
TypeTag(id, s) ==
    /\ typed < MaxTyped
    /\ TagsShown(id)
    /\ focus = TagFocus(id)
    /\ CardStep(id, photos, [cards[id] EXCEPT !.tagInput = s], "tagType")

\* handleAddTag: the tags it passes on, or the record's own when it passes none.
AddTag(tags, tagInput) ==
    IF Truthy(Trim(tagInput)) /\ ~Includes(tags, Trim(tagInput))
    THEN Append(tags, Trim(tagInput))
    ELSE tags

\* handleAddTag, by Enter in the tag input (blur false) or by its blur
HandleAddTag(id, blur) ==
    /\ TagsShown(id)
    /\ focus = TagFocus(id)
    /\ LET photo == PhotoById(photos, id)
           newTags == AddTag(photo.tags, cards[id].tagInput)
       IN  CardStep(id,
                    IF newTags # photo.tags THEN handleTagsChange(photos, id, newTags)
                    ELSE photos,
                    [cards[id] EXCEPT !.tagInput = <<>>],
                    IF blur THEN "tagBlur" ELSE "tagAdd")

\* handleRemoveTag: photo.tags.filter(tag => tag !== tagToRemove)
RemoveTag(tags, tagToRemove) == FilterNot(tags, tagToRemove)

\* handleRemoveTag, from the button of a tag the card shows
HandleRemoveTag(id, tagToRemove) ==
    /\ focus = None
    /\ TagsShown(id)
    /\ Includes(PhotoById(photos, id).tags, tagToRemove)
    /\ CardStep(id,
                handleTagsChange(photos, id,
                                 RemoveTag(PhotoById(photos, id).tags, tagToRemove)),
                cards[id], "tagRemove")

\* ---------------------------------------------------------------- Next

Tags == { <<"a">>, <<"b">> }

\* The application under a user who uploads, imports, saves, deletes and starts
\* new photobooks, and leaves albums, titles, captions and tags as they are.
Next ==
    \/ \E n \in 1..MaxBatch : HandleFilesSelected(n)
    \/ \E id \in pending, resp \in Responses : Settle(id, resp)
    \/ ResetTimerFires
    \/ HandleImportSelected
    \/ \E doc \in ImportedDocuments : ImportResolves(doc)
    \/ ImportRejects
    \/ HandleSave
    \/ \E ok \in BOOLEAN : SaveSettles(ok)
    \/ \E id \in Ids(photos) : HandleDeletePhoto(id)
    \/ ConfirmDelete
    \/ CancelDelete
    \/ HandleNewPhotobook
    \/ ConfirmNewPhotobook
    \/ CancelNewPhotobook

Spec == Init /\ [][Next]_vars

\* The application under a user who uploads, deletes and starts new photobooks,
\* with the enrichment client answering every call in the end
\* (generatePhotoDetails settles) and the browser running every timeout that
\* stays set (setTimeout of the progress effect).
LiveNext ==
    \/ \E n \in 1..MaxBatch : HandleFilesSelected(n)
    \/ \E id \in pending, resp \in Responses : Settle(id, resp)
    \/ ResetTimerFires
    \/ \E id \in Ids(photos) : HandleDeletePhoto(id)
    \/ ConfirmDelete
    \/ CancelDelete
    \/ HandleNewPhotobook
    \/ ConfirmNewPhotobook
    \/ CancelNewPhotobook

LiveSpec ==
    /\ Init
    /\ [][LiveNext]_vars
    /\ \A id \in 1..MaxIds : WF_vars(\E resp \in Responses : Settle(id, resp))
    /\ WF_vars(ResetTimerFires)

\* The application under a user who uploads up to MaxAlbumIds photos and renames
\* albums.
AlbumNext ==
    \/ \E n \in 1..MaxBatch : nextId + n - 1 <= MaxAlbumIds /\ HandleFilesSelected(n)
    \/ \E id \in pending, resp \in Responses : Settle(id, resp)
    \/ ResetTimerFires
    \/ \E albumName \in GroupNames(photos) : StartEditAlbum(albumName)
    \/ FocusAlbumInput
    \/ \E s \in Typed : TypeAlbumName(s)
    \/ HandleSaveAlbumName
    \/ CancelEditAlbum

AlbumSpec == Init /\ [][AlbumNext]_vars

\* The application under a user who uploads up to MaxCardIds photos and edits
\* titles, captions and tags on their cards.
CardNext ==
    \/ \E n \in 1..MaxBatch : nextId + n - 1 <= MaxCardIds /\ HandleFilesSelected(n)
    \/ \E id \in pending, resp \in Responses : Settle(id, resp)
    \/ ResetTimerFires
    \/ \E id \in Ids(photos) : StartEditTitle(id)
    \/ \E id \in Ids(photos), s \in Typed : TypeTitle(id, s)
    \/ \E id \in Ids(photos) : HandleSaveTitle(id)
    \/ \E id \in Ids(photos) : HandleCancelTitle(id)
    \/ \E id \in Ids(photos) : StartEditCaption(id)
    \/ \E id \in Ids(photos), s \in Typed : TypeCaption(id, s)
    \/ \E id \in Ids(photos) : HandleSaveCaption(id)
    \/ \E id \in Ids(photos) : HandleCancelCaption(id)
    \/ \E id \in Ids(photos) : BlurCaption(id)
    \/ \E id \in Ids(photos) : FocusTagInput(id)
    \/ \E id \in Ids(photos), s \in Typed : TypeTag(id, s)
    \/ \E id \in Ids(photos), blur \in BOOLEAN : HandleAddTag(id, blur)
    \/ \E id \in Ids(photos), t \in Tags : HandleRemoveTag(id, t)

CardSpec == Init /\ [][CardNext]_vars

\* The application under a user who uploads up to MaxEditIds photos, renames
\* albums and edits titles, captions and tags on the cards.  The album header
\* input keeps the focus for as long as it shows here (a group that lost its
\* records does not come back), so the click that refocuses it is left out.
EditNext ==
    \/ \E n \in 1..MaxBatch : nextId + n - 1 <= MaxEditIds /\ HandleFilesSelected(n)
    \/ \E id \in pending, resp \in Responses : Settle(id, resp)
    \/ ResetTimerFires
    \/ \E albumName \in GroupNames(photos) : StartEditAlbum(albumName)
    \/ \E s \in Typed : TypeAlbumName(s)
    \/ HandleSaveAlbumName
    \/ CancelEditAlbum
    \/ \E id \in Ids(photos) : StartEditTitle(id)
    \/ \E id \in Ids(photos), s \in Typed : TypeTitle(id, s)
    \/ \E id \in Ids(photos) : HandleSaveTitle(id)
    \/ \E id \in Ids(photos) : HandleCancelTitle(id)
    \/ \E id \in Ids(photos) : StartEditCaption(id)
    \/ \E id \in Ids(photos), s \in Typed : TypeCaption(id, s)
    \/ \E id \in Ids(photos) : HandleSaveCaption(id)
    \/ \E id \in Ids(photos) : HandleCancelCaption(id)
    \/ \E id \in Ids(photos) : BlurCaption(id)
    \/ \E id \in Ids(photos) : FocusTagInput(id)
    \/ \E id \in Ids(photos), s \in Typed : TypeTag(id, s)
    \/ \E id \in Ids(photos), blur \in BOOLEAN : HandleAddTag(id, blur)
    \/ \E id \in Ids(photos), t \in Tags : HandleRemoveTag(id, t)

EditSpec == Init /\ [][EditNext]_vars

\* ================================================================ properties

\* C1: in every reachable state, under any interleaving of uploads, enrichment
\* settlements, deletes, new-photobook clears, imports and counter resets, the
\* progress counter has completed <= total.
C1_CompletedAtMostTotal ==
    processingProgress.completed <= processingProgress.total

\* A failed settlement of a deleted record has brought completed up to total,
\* after two photos or more were uploaded.
C1_Witness ==
    /\ last.op = "settle"
    /\ last.fate = "deleted"
    /\ processingProgress.total >= 2
    /\ processingProgress.completed = processingProgress.total

\* C2: a step that issues requests (an upload of N photos) raises total by
\* exactly N and leaves completed alone, with none of its requests settled; a
\* step in which a request settles raises completed by exactly 1 and leaves
\* total alone, whether the request succeeds or fails and whether or not its
\* record is still in the registry; a settled request never becomes pending
\* again, so it counts exactly once.
C2_UploadAndSettleCounts ==
    [][ /\ \A id \in pending :
              id \notin pending' =>
                 /\ processingProgress'.completed = processingProgress.completed + 1
                 /\ processingProgress'.total = processingProgress.total
                 /\ pending' = pending \ {id}
        /\ pending' \ pending # {} =>
              /\ processingProgress'.total =
                    processingProgress.total + Cardinality(pending' \ pending)
              /\ processingProgress'.completed = processingProgress.completed
              /\ pending \subseteq pending'
              /\ \A id \in pending' \ pending : id >= nextId
        /\ processingProgress'.completed > processingProgress.completed =>
              \E id \in pending : id \notin pending' ]_vars

\* A request failed for a record deleted meanwhile, while a request of another
\* batch is still outstanding, and was counted.
C2_Witness ==
    /\ last.op = "settle"
    /\ ~last.ok
    /\ last.fate = "deleted"
    /\ pending # {}
    /\ processingProgress.completed >= 1
    /\ processingProgress.total = 3

\* C3: when the request of a record that was deleted while the request was
\* outstanding settles, the registry is what it was before the settlement.
C3_DeletedStaysDeleted ==
    [][ \A id \in pending :
           (fate[id] = "deleted" /\ id \notin pending') => photos' = photos ]_vars

\* The request of a deleted record has settled with a result, and the registry
\* holds other records.
C3_Witness ==
    /\ last.op = "settle"
    /\ last.fate = "deleted"
    /\ last.ok
    /\ Len(photos) >= 1
    /\ last.id \notin Ids(photos)

\* C4: no record of the registry has isLoading true and an error.
C4_LoadingExcludesError ==
    \A i \in 1..Len(photos) : ~(photos[i].isLoading /\ IsSome(photos[i].error))

\* One record carries an error while another is still loading.
C4_Witness ==
    /\ \E i \in 1..Len(photos) : IsSome(photos[i].error) /\ ~photos[i].isLoading
    /\ \E i \in 1..Len(photos) : photos[i].isLoading

\* C5: the tags of every record of the registry hold no string twice.
C5_TagsDistinct ==
    \A i \in 1..Len(photos) :
        \A j, k \in 1..Len(photos[i].tags) :
            j # k => photos[i].tags[j] # photos[i].tags[k]

\* The records of ps whose album is oldName moved to album name, every other
\* record and field as it was.
Renamed(ps, oldName, name) ==
    [i \in 1..Len(ps) |->
        IF ps[i].album = oldName THEN [ps[i] EXCEPT !.album = name] ELSE ps[i]]

\* In the projection of ps, one group is called name and it holds every record
\* of ps with an index in idx.
InOneGroup(ps, name, idx) ==
    idx # {} =>
        /\ Cardinality({ k \in 1..Len(albums(ps)) : albums(ps)[k][1] = name }) = 1
        /\ \A k \in 1..Len(albums(ps)) :
              albums(ps)[k][1] = name =>
                 \A i \in idx : \E j \in 1..Len(albums(ps)[k][2]) :
                                   albums(ps)[k][2][j] = ps[i]

\* C6 as stated: a committed rename to a newName that is non-empty after
\* trimming gives every record whose album is oldName the album newName, changes
\* nothing else, and leaves these records and those already called newName in
\* one group of that name.
C6_RenameToNewName ==
    [][ (last'.op = "albumSave" /\ Truthy(Trim(last'.newName))) =>
           /\ photos' = Renamed(photos, last'.oldName, last'.newName)
           /\ InOneGroup(photos', last'.newName,
                         { i \in 1..Len(photos) :
                              photos[i].album \in {last'.oldName, last'.newName} })
      ]_vars

\* C6 as amended: the album set is the trimmed newName.
C6_RenameToTrimmedName ==
    [][ (last'.op = "albumSave" /\ Truthy(Trim(last'.newName))) =>
           /\ photos' = Renamed(photos, last'.oldName, Trim(last'.newName))
           /\ InOneGroup(photos', Trim(last'.newName),
                         { i \in 1..Len(photos) :
                              photos[i].album \in {last'.oldName, Trim(last'.newName)} })
      ]_vars

\* A rename of 'Uncategorized' to a padded name has merged a failed record into
\* the album of an enriched one, beside a third record of another group.
C6_Witness ==
    /\ last.op = "albumSave"
    /\ last.oldName = Uncategorized
    /\ last.newName = <<"a", " ">>
    /\ Len(photos) = 3
    /\ Cardinality({ i \in 1..Len(photos) : photos[i].album = <<"a">> }) = 2
    /\ \E i \in 1..Len(photos) : IsSome(photos[i].error) /\ photos[i].album = <<"a">>
    /\ \E i \in 1..Len(photos) : photos[i].album = <<>>

\* C7: a committed rename whose new name is empty or whitespace leaves the
\* registry (and everything but the album-editing state) unchanged and ends the
\* album-editing state.
C7_BlankRenameIsNoOp ==
    [][ (last'.op = "albumSave" /\ ~Truthy(Trim(last'.newName))) =>
           /\ photos' = photos
           /\ editingAlbum' = None
           /\ UNCHANGED <<processingProgress, resetTimer, pending, nextId, isSaving,
                          isImporting, photoToDelete, isNewPhotobookModalOpen, cards>>
      ]_vars

\* A whitespace name was committed for an album that records carry.
C7_Witness ==
    /\ last.op = "albumSave"
    /\ last.newName = <<" ">>
    /\ \E i \in 1..Len(photos) : photos[i].album = last.oldName
    /\ editingAlbum = None

\* The number of entries of seq equal to x.
Count(seq, x) == Cardinality({ i \in 1..Len(seq) : seq[i] = x })

\* C8: after handleAddTag ran with a tag that is non-empty after trimming, the
\* record's tags hold that tag exactly once (so adding it again leaves one
\* entry); removing a tag the record does not have leaves its tags as they are;
\* removing one it has deletes it and keeps the order of the others.
C8_TagAddRemove ==
    [][ /\ last'.op \in {"tagAdd", "tagBlur"} =>
              (Truthy(Trim(cards[last'.id].tagInput)) =>
                  Count(PhotoById(photos', last'.id).tags,
                        Trim(cards[last'.id].tagInput)) = 1)
        /\ last'.op = "tagRemove" =>
              \E t \in Tags :
                  /\ Includes(PhotoById(photos, last'.id).tags, t)
                  /\ PhotoById(photos', last'.id).tags =
                        SelectSeq(PhotoById(photos, last'.id).tags, LAMBDA x : x # t)
        /\ \A i \in 1..Len(photos), t \in Tags :
              ~Includes(photos[i].tags, t) => RemoveTag(photos[i].tags, t) = photos[i].tags
      ]_vars

\* C9: confirming the new-photobook dialog empties the registry, cancelling it
\* leaves the registry as it was, the settlement of a request whose record was
\* cleared leaves the registry as it was, and an empty registry stays empty in
\* every step that hands out no identifier (every step but an upload or import).
C9_ClearIsFinal ==
    [][ /\ last'.op = "new" => photos' = <<>>
        /\ last'.op = "newCancel" => photos' = photos
        /\ \A id \in pending :
              (fate[id] = "cleared" /\ id \notin pending') => photos' = photos
        /\ (photos = <<>> /\ nextId' = nextId) => photos' = <<>> ]_vars

\* The request of a cleared record has settled with a result and the registry
\* is empty.
C9_Witness ==
    /\ last.op = "settle"
    /\ last.fate = "cleared"
    /\ last.ok
    /\ photos = <<>>

\* The messages generatePhotoDetails can fail with for a given cause.
FailureMessages(cause) ==
    { generatePhotoDetails(hasApiKey, resp).message :
        resp \in { r \in Responses : Cause(hasApiKey, r) = cause } }

\* C10: when a request fails (a wrong shape included) for a record still in the
\* registry, the record gets album 'Uncategorized', no tags, the failure message
\* as its error and isLoading false, and keeps its title and caption.
C10_FailureMarksRecord ==
    [][ (last'.op = "settle" /\ ~last'.ok /\ last'.fate = "present") =>
           /\ last'.id \in Ids(photos) /\ last'.id \in Ids(photos')
           /\ LET p == PhotoById(photos, last'.id)
                  q == PhotoById(photos', last'.id)
              IN  /\ q.album = Uncategorized
                  /\ q.tags = <<>>
                  /\ IsSome(q.error)
                  /\ q.error[1] \in FailureMessages(last'.cause)
                  /\ q.error[1] # ""
                  /\ q.isLoading = FALSE
                  /\ q.title = p.title
                  /\ q.caption = p.caption ]_vars

\* A response of the wrong shape has failed the request of a record in the
\* registry.
C10_Witness ==
    /\ last.op = "settle"
    /\ last.cause = "shape"
    /\ last.fate = "present"
    /\ last.id \in Ids(photos)

\* The results generatePhotoDetails can return.
Results ==
    { generatePhotoDetails(hasApiKey, resp).value :
        resp \in { r \in Responses : Cause(hasApiKey, r) = "none" } }

\* C11: when a request succeeds for a record still in the registry, the record
\* gets the title, caption, album and tags of the result and isLoading false,
\* its error stays unset, and its other fields and the other records are as
\* they were.
C11_SuccessFillsRecord ==
    [][ (last'.op = "settle" /\ last'.ok /\ last'.fate = "present") =>
           /\ last'.id \in Ids(photos) /\ Len(photos') = Len(photos)
           /\ \E v \in Results :
                 \A i \in 1..Len(photos) :
                    photos'[i] =
                       IF photos[i].id = last'.id
                       THEN [id |-> photos[i].id, src |-> photos[i].src,
                             file |-> photos[i].file, title |-> v.title,
                             caption |-> v.caption, album |-> v.album,
                             tags |-> v.tags, isLoading |-> FALSE, error |-> None]
                       ELSE photos[i] ]_vars

\* A request has succeeded with two tags for a record in the registry, beside a
\* record whose request failed.
C11_Witness ==
    /\ last.op = "settle"
    /\ last.ok
    /\ last.fate = "present"
    /\ last.id \in Ids(photos)
    /\ PhotoById(photos, last.id).tags = << <<"a">>, <<"b">> >>
    /\ ~PhotoById(photos, last.id).isLoading
    /\ \E i \in 1..Len(photos) : IsSome(photos[i].error)

\* C12: with the enrichment client answering every call in the end, every
\* uploaded record that is loading is later not loading or removed, whichever
\* requests of its batch and of other batches fail.
C12_EveryRequestSettles ==
    \A id \in 1..MaxIds :
        (id \in Ids(photos) /\ PhotoById(photos, id).isLoading)
            ~> (id \notin Ids(photos) \/ ~PhotoById(photos, id).isLoading)

\* A request has succeeded after the request of a sibling failed, and no record
\* is loading any more.
C12_Witness ==
    /\ last.op = "settle"
    /\ last.ok
    /\ last.fate = "present"
    /\ pending = {}
    /\ Len(photos) >= 2
    /\ \E i \in 1..Len(photos) : IsSome(photos[i].error)
    /\ \A i \in 1..Len(photos) : ~photos[i].isLoading

\* C13: the counter goes to {0,0} only from a state with total > 0 and
\* completed >= total and no request outstanding; a step that starts a batch
\* leaves no reset pending (the reset of the done window is superseded); and a
\* reset is never pending while a request is outstanding.
C13_ResetOnlyWhenDone ==
    [][ /\ (processingProgress' = [completed |-> 0, total |-> 0]
             /\ processingProgress' # processingProgress) =>
               /\ processingProgress.total > 0
               /\ processingProgress.completed >= processingProgress.total
               /\ pending = {}
               /\ resetTimer
        /\ pending' \ pending # {} => ~resetTimer'
        /\ resetTimer' => pending' = {} ]_vars

\* A batch has started in the done window of an earlier batch: its requests are
\* the only outstanding ones, earlier ones were counted and never reset, and no
\* reset is pending.
C13_Witness ==
    /\ last.op = "upload"
    /\ Cardinality(pending) = last.n
    /\ processingProgress.completed >= 1
    /\ processingProgress.total = processingProgress.completed + last.n
    /\ ~resetTimer

\* The counter shows the done state / is {0,0}.
Done ==
    /\ processingProgress.total > 0
    /\ processingProgress.completed >= processingProgress.total

Zero == processingProgress = [completed |-> 0, total |-> 0]

\* C14: with every timeout that stays set running in the end, a done counter
\* is followed by {0,0} or by the start of an upload batch; and with every
\* call settling in the end and the uploads over (there are finitely many), the
\* counter is {0,0} from some point on.
C14_DoneLeadsToZero ==
    /\ Done ~> (Zero \/ last.op = "upload")
    /\ <>[]Zero

\* The counter was reset after the requests of two batches or more were counted.
C14_Witness ==
    /\ last.op = "reset"
    /\ Zero
    /\ ~resetTimer
    /\ pending = {}
    /\ nextId = MaxIds + 1
    /\ Len(photos) >= 1

\* C15: the step in which an import fails, a save fails (or succeeds), or an
\* import resolves with no record, and the step that issues an import or a
\* save, leave the registry as it is; an import that resolves with records
\* appends them and changes no record.
C15_FailedBatchLeavesRegistry ==
    [][ /\ last'.op \in {"importStart", "importFail", "saveStart", "saveEnd"} =>
               photos' = photos
        /\ (last'.op = "importOk" /\ last'.n = 0) => photos' = photos
        /\ (last'.op = "importOk" /\ last'.n > 0) =>
               /\ Len(photos') = Len(photos) + last'.n
               /\ SubSeq(photos', 1, Len(photos)) = photos ]_vars

\* A save has failed while the registry holds a record whose request is
\* outstanding and one whose request has settled.
C15_Witness ==
    /\ last.op = "saveEnd"
    /\ ~last.ok
    /\ pending # {}
    /\ \E i \in 1..Len(photos) : photos[i].isLoading
    /\ \E i \in 1..Len(photos) : ~photos[i].isLoading

\* C16: for a record whose request failed (its error is set), the edits of the
\* card stay available: with no input focused, the user can open the title
\* editor, open the caption editor and enter the tag input.
C16_FailedRecordEditable ==
    \A i \in 1..Len(photos) :
        (HasError(photos[i]) /\ focus = None) =>
            /\ ENABLED StartEditTitle(photos[i].id)
            /\ ENABLED StartEditCaption(photos[i].id)
            /\ ENABLED FocusTagInput(photos[i].id)

\* C17: confirming a title edit stores the trimmed scratch title in the record
\* if and only if it is non-empty and differs from the record's title, and
\* confirming a caption edit stores the trimmed scratch caption if and only if
\* it differs from the record's caption; otherwise the registry is unchanged;
\* no other record or field changes, and the field is in viewing mode after.
C17_ConfirmCommitsTrimmed ==
    [][ /\ last'.op = "titleSave" =>
              LET p == PhotoById(photos, last'.id)
                  t == Trim(cards[last'.id].editedTitle)
              IN  /\ photos' =
                        IF t # p.title /\ t # <<>>
                        THEN [i \in 1..Len(photos) |->
                                 IF photos[i].id = last'.id
                                 THEN [photos[i] EXCEPT !.title = t] ELSE photos[i]]
                        ELSE photos
                  /\ ~cards'[last'.id].isEditingTitle
        /\ last'.op = "captionSave" =>
              LET p == PhotoById(photos, last'.id)
                  t == Trim(cards[last'.id].editedCaption)
              IN  /\ photos' =
                        IF t # p.caption
                        THEN [i \in 1..Len(photos) |->
                                 IF photos[i].id = last'.id
                                 THEN [photos[i] EXCEPT !.caption = t] ELSE photos[i]]
                        ELSE photos
                  /\ ~cards'[last'.id].isEditingCaption ]_vars

\* A title edit was confirmed on the record enriched with title 'b', and its
\* title is now 'a'.
C17_Witness ==
    /\ last.op = "titleSave"
    /\ last.id \in Ids(photos)
    /\ PhotoById(photos, last.id).title = <<"a">>
    /\ PhotoById(photos, last.id).tags = << <<"a">>, <<"a">> >>
    /\ ~cards[last.id].isEditingTitle

\* C18: when the caption textarea loses the focus in editing mode, the edit is
\* confirmed as by an explicit save: the trimmed scratch caption is stored if
\* it differs from the record's caption, and the caption is in viewing mode
\* after.
C18_CaptionBlurConfirms ==
    [][ last'.op = "captionBlur" =>
           LET p == PhotoById(photos, last'.id)
               t == Trim(cards[last'.id].editedCaption)
           IN  /\ photos' =
                     IF t # p.caption
                     THEN [i \in 1..Len(photos) |->
                              IF photos[i].id = last'.id
                              THEN [photos[i] EXCEPT !.caption = t] ELSE photos[i]]
                     ELSE photos
               /\ ~cards'[last'.id].isEditingCaption ]_vars

\* C19: cancelling a title or caption edit leaves the registry as it is, sets
\* the scratch value to the record's value and puts the field in viewing mode.
C19_CancelDiscards ==
    [][ /\ last'.op = "titleCancel" =>
              /\ photos' = photos
              /\ cards'[last'.id].editedTitle = PhotoById(photos, last'.id).title
              /\ ~cards'[last'.id].isEditingTitle
        /\ last'.op = "captionCancel" =>
              /\ photos' = photos
              /\ cards'[last'.id].editedCaption = PhotoById(photos, last'.id).caption
              /\ ~cards'[last'.id].isEditingCaption ]_vars

\* A caption edit was cancelled after the user typed, on the record enriched
\* with the caption ' a', which it still has.
C19_Witness ==
    /\ last.op = "captionCancel"
    /\ typed >= 1
    /\ last.id \in Ids(photos)
    /\ PhotoById(photos, last.id).caption = <<" ", "a">>
    /\ cards[last.id].editedCaption = <<" ", "a">>
    /\ ~cards[last.id].isEditingCaption

\* C20: the error generatePhotoDetails fails with for a response of the wrong
\* shape can be told from the errors of its other failures: the message the
\* caller gets (and stores in the record) is none of those it gets for a
\* rejected call or for a response that is not JSON.
C20_WrongShapeDistinguishable ==
    [][ (last'.op = "settle" /\ last'.cause = "shape" /\ last'.fate = "present") =>
           LET q == PhotoById(photos', last'.id)
           IN  /\ IsSome(q.error)
               /\ q.error[1] \notin FailureMessages("reject")
                                        \cup FailureMessages("notjson") ]_vars

\* C21: the ids of the records of the registry are pairwise distinct.
C21_IdsDistinct ==
    \A i, j \in 1..Len(photos) : i # j => photos[i].id # photos[j].id

\* The registry holds an uploaded and an imported record after an earlier
\* record was removed.
C21_Witness ==
    /\ \E i \in 1..Len(photos) : photos[i].src[1] = "blob"
    /\ \E i \in 1..Len(photos) : photos[i].src[1] = "data"
    /\ nextId > Len(photos) + 1

\* The positions <<k, j>> of the projection al that hold record p.
PositionsOf(al, p) ==
    { kj \in UNION { {<<k, j>> : j \in 1..Len(al[k][2])} : k \in 1..Len(al) } :
         al[kj[1]][2][kj[2]] = p }

\* C22: the album projection is a partition of the registry: every record is
\* at exactly one position of exactly one group, and every position holds a
\* record of the registry; the name of a record's group is its album when that
\* is non-empty, '...' when it is empty and the record is loading, and
\* 'Uncategorized' otherwise; every loading record is in the group '...'; the
\* groups are in strictly ascending order of name; and the records of a group
\* are in registry order.
C22_ProjectionPartitions ==
    LET al == albums(photos)
    IN  /\ \A i \in 1..Len(photos) :
              /\ Cardinality(PositionsOf(al, photos[i])) = 1
              /\ \A kj \in PositionsOf(al, photos[i]) :
                    /\ al[kj[1]][1] =
                          IF photos[i].album # <<>> THEN photos[i].album
                          ELSE IF photos[i].isLoading THEN <<".", ".", ".">>
                               ELSE Uncategorized
                    /\ photos[i].isLoading => al[kj[1]][1] = <<".", ".", ".">>
        /\ \A k \in 1..Len(al) :
              /\ Len(al[k][2]) >= 1
              /\ \A j \in 1..Len(al[k][2]) :
                    \E i \in 1..Len(photos) : photos[i] = al[k][2][j]
              /\ \A j1, j2 \in 1..Len(al[k][2]) :
                    j1 < j2 =>
                       \E i1, i2 \in 1..Len(photos) :
                          /\ i1 < i2
                          /\ photos[i1] = al[k][2][j1]
                          /\ photos[i2] = al[k][2][j2]
        /\ \A k1, k2 \in 1..Len(al) :
              k1 < k2 => LocaleCompare(al[k1][1], al[k2][1]) < 0

\* The projection has the three groups '...', 'a' and 'Uncategorized', in this
\* order.
C22_Witness ==
    /\ Len(albums(photos)) = 3
    /\ albums(photos)[1][1] = <<".", ".", ".">>
    /\ albums(photos)[2][1] = <<"a">>
    /\ albums(photos)[3][1] = Uncategorized

\* Registry qs differs from registry ps at most in the record whose id is X.
OnlyRecordChanged(ps, qs, X) ==
    /\ Len(qs) = Len(ps)
    /\ \A i \in 1..Len(ps) : ps[i].id # X => qs[i] = ps[i]
    /\ \A i \in 1..Len(ps) : qs[i].id = ps[i].id

\* C23: a step that edits the title, caption or tags of record X or settles the
\* request of record X changes no other record; and in the registry of such a
\* step, the registry updates of these operations for an id that no record has
\* (the next unused one) leave the registry as it is.
C23_OnlyOwnRecordChanges ==
    [][ last'.op \in {"titleSave", "captionSave", "tagAdd", "tagBlur",
                       "tagRemove", "settle"} =>
           /\ OnlyRecordChanged(photos, photos', last'.id)
           /\ handleTitleChange(photos, nextId, <<"a">>) = photos
           /\ handleCaptionChange(photos, nextId, <<"a">>) = photos
           /\ handleTagsChange(photos, nextId, << <<"a">> >>) = photos
           /\ \A v \in Results : ApplySuccess(photos, nextId, v) = photos
           /\ ApplyFailure(photos, nextId, MsgGenerate) = photos
      ]_vars

\* A tag was added to one record, beside another record that has its tags as
\* enriched.
C23_Witness ==
    /\ last.op = "tagAdd"
    /\ Len(photos) = 2
    /\ PhotoById(photos, last.id).tags = << <<"b">>, <<"a">> >>
    /\ \E i \in 1..Len(photos) :
          photos[i].id # last.id /\ photos[i].tags = << <<"a">>, <<"a">> >>

\* The ids of registry ps, in order, and those of them that are in S.
IdsInOrder(ps, S) ==
    SelectSeq([i \in 1..Len(ps) |-> ps[i].id], LAMBDA x : x \in S)

\* C24: no step changes the relative order of the records that remain: the
\* remaining ids are in the same order before and after; new records (upload,
\* import) come after all existing ones, in the order given; a delete removes
\* one record and nothing else; a settlement keeps every id in place; and the
\* title, caption, tag and album updates applied to the registry after the
\* step keep every id in place.
C24_OrderPreserved ==
    [][ photos' # photos =>
           /\ IdsInOrder(photos', Ids(photos)) = IdsInOrder(photos, Ids(photos'))
           /\ \A i, j \in 1..Len(photos') :
                 (photos'[i].id \notin Ids(photos) /\ i < j) =>
                    /\ photos'[j].id \notin Ids(photos)
                    /\ photos'[j].id > photos'[i].id
           /\ last'.op \in {"upload", "importOk"} =>
                 SubSeq(photos', 1, Len(photos)) = photos
           /\ last'.op = "delete" =>
                 IdsInOrder(photos', Ids(photos')) =
                    IdsInOrder(photos, Ids(photos) \ {last'.id})
           /\ last'.op = "settle" =>
                 IdsInOrder(photos', Ids(photos')) = IdsInOrder(photos, Ids(photos))
           /\ LET all == Ids(photos')
                  order == IdsInOrder(photos', all)
              IN  \A i \in 1..Len(photos') :
                     /\ IdsInOrder(handleTitleChange(photos', photos'[i].id, <<"a">>),
                                   all) = order
                     /\ IdsInOrder(handleCaptionChange(photos', photos'[i].id, <<"a">>),
                                   all) = order
                     /\ IdsInOrder(handleTagsChange(photos', photos'[i].id,
                                                    << <<"a">> >>), all) = order
                     /\ IdsInOrder(handleAlbumNameChange(photos', photos'[i].album,
                                                         <<"b">>), all) = order
      ]_vars

\* The middle one of three records was deleted: the first and the last remain,
\* in this order.
C24_Witness ==
    /\ last.op = "delete"
    /\ last.id = 2
    /\ Len(photos) = 2
    /\ photos[1].id = 1
    /\ photos[2].id = 3

\* C25: an import that resolves with k >= 1 records appends exactly these k
\* records, in their order, after the records the registry holds at that
\* moment, which stay as they are; it issues no request and leaves the
\* progress counter (and its pending reset) as they are.
C25_ImportAppends ==
    [][ (last'.op = "importOk" /\ last'.n >= 1) =>
           /\ Len(photos') = Len(photos) + last'.n
           /\ SubSeq(photos', 1, Len(photos)) = photos
           /\ \E doc \in ImportedDocuments :
                 /\ Len(doc) = last'.n
                 /\ \A i \in 1..Len(doc) :
                       photos'[Len(photos) + i] =
                          [id |-> nextId + i - 1, src |-> <<"data", nextId + i - 1>>,
                           file |-> <<"file", nextId + i - 1>>,
                           title |-> doc[i].title, caption |-> doc[i].caption,
                           album |-> doc[i].album, tags |-> doc[i].tags,
                           isLoading |-> FALSE, error |-> None]
           /\ pending' = pending
           /\ processingProgress' = processingProgress
           /\ resetTimer' = resetTimer ]_vars

\* An import of two records has resolved into a registry that holds an
\* uploaded record whose request is outstanding.
C25_Witness ==
    /\ last.op = "importOk"
    /\ last.n = 2
    /\ Len(photos) = 3
    /\ photos[1].isLoading
    /\ pending # {}
    /\ photos[2].src[1] = "data"
    /\ photos[3].src[1] = "data"
    /\ photos[2].album # photos[3].album

\* C26: every record an upload creates has isLoading true; the isLoading of a
\* record never goes from false to true; it goes from true to false only in
\* the settlement of the record's own request; and a record that left the
\* registry does not come back (new ids are unused ones), so isLoading goes
\* from true to false at most once per record.
C26_LoadingFallsOnce ==
    [][ /\ last'.op = "upload" =>
              /\ Len(photos') = Len(photos) + last'.n
              /\ \A i \in (Len(photos) + 1)..Len(photos') : photos'[i].isLoading
        /\ \A i \in 1..Len(photos), j \in 1..Len(photos') :
              photos[i].id = photos'[j].id =>
                 /\ ~photos[i].isLoading => ~photos'[j].isLoading
                 /\ (photos[i].isLoading /\ ~photos'[j].isLoading) =>
                       /\ last'.op = "settle"
                       /\ last'.id = photos[i].id
                       /\ photos[i].id \in pending
                       /\ photos[i].id \notin pending'
        /\ \A j \in 1..Len(photos') :
              photos'[j].id \notin Ids(photos) => photos'[j].id >= nextId ]_vars

\* The request of the second of three uploaded records has settled first: it is
\* not loading, the other two are.
C26_Witness ==
    /\ last.op = "settle"
    /\ last.id = 2
    /\ Len(photos) = 3
    /\ photos[1].isLoading
    /\ ~photos[2].isLoading
    /\ photos[3].isLoading

\* The number of records of the registry that are loading.
LoadingCount == Cardinality({ i \in 1..Len(photos) : photos[i].isLoading })

\* C27: total - completed is the number of requests issued and not settled;
\* the number of loading records is at most that, and equal to it when no
\* record with an outstanding request was deleted or cleared; the loading
\* records are those of the registry with an outstanding request.
C27_CounterMatchesOutstanding ==
    /\ processingProgress.total - processingProgress.completed = Cardinality(pending)
    /\ LoadingCount <= processingProgress.total - processingProgress.completed
    /\ (\A id \in pending : fate[id] = "present") =>
          LoadingCount = processingProgress.total - processingProgress.completed
    /\ \A i \in 1..Len(photos) : photos[i].isLoading <=> photos[i].id \in pending

\* Of three requests one has settled and one belongs to a deleted record: two
\* are outstanding and one record is loading.
C27_Witness ==
    /\ processingProgress = [completed |-> 1, total |-> 3]
    /\ Cardinality(pending) = 2
    /\ \E id \in pending : fate[id] = "deleted"
    /\ LoadingCount = 1

\* The operations by which the user commits a title, a caption, a tag change or
\* an album rename.
UserCommits == {"titleSave", "captionSave", "captionBlur", "tagAdd", "tagBlur",
                "tagRemove", "albumSave"}

\* C28: a loading record has an empty title, caption, album and tag list, and
\* no title, caption, tag or album-rename operation changes it: a record that is
\* loading changes only in the step that settles its own request, and a step
\* of the user changes only records whose request has settled.
C28_EditsFollowSettlement ==
    [][ /\ \A i \in 1..Len(photos) :
              photos[i].isLoading =>
                 /\ photos[i].title = <<>> /\ photos[i].caption = <<>>
                 /\ photos[i].album = <<>> /\ photos[i].tags = <<>>
        /\ photos' # photos =>
              \A i \in 1..Len(photos), j \in 1..Len(photos') :
                 (photos[i].id = photos'[j].id /\ photos[i] # photos'[j]) =>
                    /\ photos[i].isLoading =>
                          last'.op = "settle" /\ last'.id = photos[i].id
                    /\ last'.op \in UserCommits =>
                          ~photos[i].isLoading /\ photos[i].id \notin pending ]_vars

\* The user has committed a rename of the group '...' to "a" while a record is
\* loading, and the record is still loading with an empty album.
C28_Witness ==
    /\ last.op = "albumSave" /\ last.oldName = InProgress /\ last.newName = <<"a">>
    /\ \E i \in 1..Len(photos) : photos[i].isLoading /\ photos[i].album = <<>>

\* C29: after the user commits a rename of a displayed group G to a name N
\* that is non-empty after trimming and different from G (as typed and as
\* trimmed), no record that was displayed under G is still displayed under G,
\* for every displayed group, the groups 'Uncategorized' and '...' included.
C29_RenameEmptiesGroup ==
    [][ ( /\ last'.op = "albumSave"
          /\ Truthy(Trim(last'.newName))
          /\ last'.newName # last'.oldName
          /\ Trim(last'.newName) # last'.oldName )
        => \A i \in 1..Len(photos), j \in 1..Len(photos') :
              ( /\ photos[i].id = photos'[j].id
                /\ AlbumName(photos[i]) = last'.oldName )
              => AlbumName(photos'[j]) # last'.oldName ]_vars

====
